---- MODULE Spec2Model ----
(***************************************************************************)
(* MemoryBot: a Streamlit chat application with per-user chat sessions     *)
(* persisted in a ChromaDB collection ("user_chats") and retrieval over    *)
(* uploaded PDF chunks ("userFiles").                                      *)
(*                                                                         *)
(* Eight state machines share this module:                                 *)
(*   Spec      - one browser session running src/app.py (session           *)
(*               lifecycle and the streaming turn);                        *)
(*   SpecStore - save_user_chats / load_user_chats / delete_user_chat of   *)
(*               src/components/chroma_storage.py, one call at a time,     *)
(*               stepping through the store operations with failures;      *)
(*   SpecConc  - two callers of save_user_chats / delete_user_chat with    *)
(*               interleaved store steps;                                  *)
(*   SpecStart - the startup of src/app.py against a collection that       *)
(*               already holds documents, and the sidebar handlers;        *)
(*   SpecLazy  - the lazy initialisers (init_chromadb_client,              *)
(*               init_vector_store, get_embedding_model) with two threads; *)
(*   SpecAuth  - register_user of src/auth.py with two callers;            *)
(*   SpecVec   - src/components/vector_store.py: ingestion, file deletion  *)
(*               and retrieval over the "userFiles" collection;            *)
(*   SpecTurn  - the turn of src/app.py over long histories, stored chunks *)
(*               and a global context.                                     *)
(*                                                                         *)
(* A Python dict is a sequence of [id, data] entries in insertion order    *)
(* with pairwise distinct ids; Python strings are TLA+ strings.            *)
(***************************************************************************)
EXTENDS Integers, Sequences, FiniteSets, TLC

\* ------------------------------------------------------------ bounds
\* Sessions one browser session holds at a time.
MaxChats == 2
\* Sessions created over a run (the clock behind created_at).
MaxClock == 2
\* Messages held by all sessions together.
MaxMsgs == 3
\* Deltas one model stream delivers.
MaxChunks == 1
\* PDFs ingested over a run (the clock behind uploaded_at).
MaxUploads == 2
\* Calls of the lazy initialisers entered over a run.
MaxInitCalls == 3
\* Calls of register_user entered over a run.
MaxRegistrations == 3

\* ------------------------------------------------------------ values
\* Python's None where a string is expected (current_chat_id, loaded id).
None == "None"
\* st.session_state.user_id = None: the falsy user id.
NoUser == 0
\* uuid4 values.
ChatIds == {"c1", "c2", "c3"}
\* str(uuid.uuid4()): an id no session of the collection has. The ids are
\* opaque, so one unused id stands for any.
FreshId(used) == CHOOSE c \in ChatIds \ used : TRUE
\* A 50 character message and a 51 character one, around the title cut.
Exact50 == "12345678901234567890123456789012345678901234567890"
Over50 == Exact50 \o "1"
\* st.chat_input values (never empty: the handler tests the prompt's truth).
Prompts == {Exact50, Over50}
\* chunk.choices[0].delta.content values of a stream.
Deltas == {"ok"}
\* The title cut of get_chat_title.
TitleLen == 50
\* len(username) < 3, len(password) < 6
MinUsername == 3
MinPassword == 6

\* Users of the store (ids of the users table start at 1).
NumUsers == 2
Users == 1..NumUsers
\* Concurrent callers of chroma_storage.py (browser sessions).
Callers == {1, 2}

Min(a, b) == IF a < b THEN a ELSE b

\* ------------------------------------------------------------ dicts
Keys(d) == {d[i].id : i \in DOMAIN d}
Has(d, k) == k \in Keys(d)
Get(d, k) == d[CHOOSE i \in DOMAIN d : d[i].id = k].data
\* d[k] = v: in place for a key d holds, appended for a new key.
Put(d, k, v) ==
    IF Has(d, k)
    THEN [i \in DOMAIN d |-> IF d[i].id = k THEN [id |-> k, data |-> v] ELSE d[i]]
    ELSE Append(d, [id |-> k, data |-> v])
IsKept(e, k) == e.id # k
\* del d[k]
Del(d, k) == SelectSeq(d, LAMBDA e : IsKept(e, k))
\* list(d.keys())[0]
FirstKey(d) == d[1].id

\* ------------------------------------------------------------ app.py helpers
\* create_new_chat's session value.
NewChatData(t) == [messages |-> <<>>, title |-> "New Chat", created_at |-> t]

\* get_chat_title with the ellipsis test written >= instead of >.
get_chat_title_from50(messages) ==
    IF messages # <<>> /\ messages[1].role = "user"
    THEN LET content == messages[1].content
             title == SubSeq(content, 1, Min(TitleLen, Len(content)))
         IN  IF Len(content) >= TitleLen THEN title \o "..." ELSE title
    ELSE "New Chat"

get_chat_title(messages) ==
    IF messages # <<>> /\ messages[1].role = "user"
    THEN LET content == messages[1].content
             title == SubSeq(content, 1, Min(TitleLen, Len(content)))
         IN  IF Len(content) > TitleLen THEN title \o "..." ELSE title
    ELSE "New Chat"

\* The sidebar loop's title update of one session.
RefreshTitle(e) ==
    IF e.data.messages # <<>>
    THEN [e EXCEPT !.data.title = get_chat_title(e.data.messages)]
    ELSE e
\* The whole sidebar loop of a script run.
Render(d) == [i \in DOMAIN d |-> RefreshTitle(d[i])]
\* The sidebar loop up to and including session k: sessions are visited newest
\* first, so those created no earlier than k.
RenderUpTo(d, k) ==
    [i \in DOMAIN d |->
        IF d[i].data.created_at >= Get(d, k).created_at THEN RefreshTitle(d[i]) ELSE d[i]]

\* ------------------------------------------------------------ ChromaDB
\* A collection is the sequence of its records in insertion order, each
\* [id, document, metadata], ids pairwise distinct.
DocIds(coll) == {coll[i].id : i \in DOMAIN coll}
\* a where clause that matched every record
OwnedByAnyone(e, u) == TRUE
OwnedBy(e, u) == e.metadata.user_id = u
\* collection.get(where={"user_id": u})
CollGet(coll, u) == SelectSeq(coll, LAMBDA e : OwnedBy(e, u))
\* results['ids'] as a set
IdsOf(results) == {results[i].id : i \in DOMAIN results}
NotIn(e, ids) == e.id \notin ids
\* collection.delete(ids=ids)
CollDelete(coll, ids) == SelectSeq(coll, LAMBDA e : NotIn(e, ids))
\* collection.add(ids, documents, metadatas): a record whose id the collection
\* already holds is ignored, the others are appended.
CollAdd(coll, docs) == coll \o SelectSeq(docs, LAMBDA e : NotIn(e, DocIds(coll)))

\* ------------------------------------------------------------ chroma_storage.py
\* str(user_id)
Str(u) == IF u = NoUser THEN "None" ELSE ToString(u)
\* str(chat_id == current_chat_id)
PyStrBool(b) == IF b THEN "True" ELSE "False"
\* f"user_{user_id}_chat_{chat_id}"
DocId(u, chat_id) == "user_" \o Str(u) \o "_chat_" \o chat_id

\* json.dumps(messages): the flat stream role, content, role, content, ...
RECURSIVE JsonDumps(_)
JsonDumps(messages) ==
    IF messages = <<>> THEN <<>>
    ELSE <<messages[1].role, messages[1].content>> \o JsonDumps(Tail(messages))
\* json.loads(document)
JsonLoads(document) ==
    [i \in 1..(Len(document) \div 2) |->
        [role |-> document[2 * i - 1], content |-> document[2 * i]]]

\* One record of save_user_chats' ids / documents / metadatas.
SaveDoc(u, e, current) ==
    [id |-> DocId(u, e.id),
     document |-> JsonDumps(e.data.messages),
     metadata |-> [user_id |-> Str(u), chat_id |-> e.id, title |-> e.data.title,
                   created_at |-> e.data.created_at,
                   is_current |-> PyStrBool(e.id = current)]]
SaveDocs(u, sessions, current) ==
    [i \in DOMAIN sessions |-> SaveDoc(u, sessions[i], current)]

\* The step of a call that raises: none, or one of init_chromadb_client,
\* collection.get, collection.delete, collection.add.
Faults == {"none", "init", "get", "delete", "add"}

\* save_user_chats run to its end with fault f: the collection it leaves and the
\* value it returns. An error of get or delete is caught by the inner handler
\* and the add goes on; an error of init or add reaches the outer handler.
SaveUserChats(coll, u, sessions, current, f) ==
    IF f = "init" THEN [coll |-> coll, ret |-> FALSE]
    ELSE LET existing == CollGet(coll, Str(u))
             cleared == IF f \in {"get", "delete"} \/ existing = <<>>
                        THEN coll
                        ELSE CollDelete(coll, IdsOf(existing))
         IN  IF sessions = <<>> THEN [coll |-> cleared, ret |-> TRUE]
             ELSE IF f = "add" THEN [coll |-> cleared, ret |-> FALSE]
             ELSE [coll |-> CollAdd(cleared, SaveDocs(u, sessions, current)),
                   ret |-> TRUE]

\* The loop of load_user_chats over results: the sessions and the active id.
RECURSIVE LoadLoop(_, _, _)
LoadLoop(results, sessions, current) ==
    IF results = <<>> THEN [sessions |-> sessions, current |-> current]
    ELSE LET md == results[1].metadata
             data == [messages |-> JsonLoads(results[1].document),
                      title |-> md.title, created_at |-> md.created_at]
         IN  LoadLoop(Tail(results), Put(sessions, md.chat_id, data),
                      IF md.is_current = "True" THEN md.chat_id ELSE current)

\* load_user_chats; failed: init_chromadb_client or collection.get raises.
LoadUserChats(coll, u, failed) ==
    IF failed THEN [sessions |-> <<>>, current |-> None]
    ELSE LET results == CollGet(coll, Str(u))
         IN  IF results = <<>> THEN [sessions |-> <<>>, current |-> None]
             ELSE LoadLoop(results, <<>>, None)

\* ------------------------------------------------------------ vector_store.py
\* An uploaded PDF as PyPDFLoader and the splitter see it: its number of pages
\* and its chunks, each a text with the (0-based) page it is cut from.
NoPages == [pages |-> 0, chunks |-> <<>>]
OnePage == [pages |-> 1, chunks |-> <<[text |-> "t1", page |-> 0]>>]
TwoPages ==
    [pages |-> 2, chunks |-> <<[text |-> "t2", page |-> 0], [text |-> "t3", page |-> 1]>>]
Pdfs == {NoPages, OnePage, TwoPages}
Filenames == {"a.pdf", "b.pdf"}
Queries == {"q1", "q2"}
\* top_k: the default of retrieve_relevant_context and a smaller one.
DefaultTopK == 3
TopKs == {1, DefaultTopK}

\* embedding_model.encode(text): a point of a line, in tenths.
Embed(text) ==
    CASE text = "t1" -> 0 [] text = "t2" -> 15 [] text = "t3" -> 5
      [] text = "q1" -> 0 [] text = "q2" -> 25
      [] text = "hi" -> 40 [] text = Exact50 -> 0 [] text = Over50 -> 25
Abs(x) == IF x < 0 THEN 0 - x ELSE x
\* The distance collection.query reports, in tenths.
Distance(embedding, e) == Abs(embedding - e.embedding)
\* similarity = 1 / (1 + distance) as a fraction
Similarity(d) == [num |-> 10, den |-> 10 + d]
\* similarity >= 0.4: the threshold itself passes.
RelevantFrom04(sim) == sim.num * 10 >= 4 * sim.den
\* similarity > 0.4
Relevant(sim) == sim.num * 10 > 4 * sim.den

\* f"user_{user_id}_file_{filename}_chunk_{idx}"
ChunkId(u, filename, idx) ==
    "user_" \o Str(u) \o "_file_" \o filename \o "_chunk_" \o ToString(idx)

\* The record process_and_store_pdf builds for chunk number i (from 1) of a
\* PDF; by: the user who uploads it (history, for the properties).
ChunkDoc(u, filename, pdf, i, t) ==
    [id |-> ChunkId(u, filename, i - 1),
     document |-> pdf.chunks[i].text,
     embedding |-> Embed(pdf.chunks[i].text),
     metadata |-> [user_id |-> Str(u), filename |-> filename,
                   chunk_index |-> ToString(i - 1),
                   total_chunks |-> ToString(Len(pdf.chunks)),
                   uploaded_at |-> t,
                   page_number |-> ToString(pdf.chunks[i].page + 1)],
     by |-> u]
ChunkDocs(u, filename, pdf, t) ==
    [i \in DOMAIN pdf.chunks |-> ChunkDoc(u, filename, pdf, i, t)]

\* The step of a call of vector_store.py that raises: none, the initialisation,
\* the PDF loader, the embedding model, the store operation (get / query /
\* add), or the delete.
VecFaults == {"none", "init", "load", "encode", "store", "delete"}

\* process_and_store_pdf with fault f: the collection it leaves and its result.
\* An add of no record raises in the client.
ProcessAndStorePdf(coll, u, filename, pdf, t, f) ==
    IF f \in {"init", "load"}
    THEN [coll |-> coll, ok |-> FALSE, message |-> "Error"]
    ELSE IF pdf.pages = 0
    THEN [coll |-> coll, ok |-> FALSE, message |-> "PDF appears to be empty or corrupt"]
    ELSE IF f \in {"encode", "store"} \/ pdf.chunks = <<>>
    THEN [coll |-> coll, ok |-> FALSE, message |-> "Error"]
    ELSE [coll |-> CollAdd(coll, ChunkDocs(u, filename, pdf, t)),
          ok |-> TRUE,
          message |-> "Successfully processed " \o ToString(pdf.pages)
                      \o " pages into " \o ToString(Len(pdf.chunks)) \o " chunks"]

\* The records of a collection in the order of their distance to an embedding,
\* nearest first, equal distances in the collection's order.
RECURSIVE InsertByDistance(_, _, _)
InsertByDistance(sorted, e, embedding) ==
    IF sorted = <<>> THEN <<e>>
    ELSE IF Distance(embedding, e) < Distance(embedding, sorted[1])
    THEN <<e>> \o sorted
    ELSE <<sorted[1]>> \o InsertByDistance(Tail(sorted), e, embedding)
\* A query that returns the records in the collection's order.
NearestFirstUnsorted(records, embedding) == records
RECURSIVE NearestFirst(_, _)
NearestFirst(records, embedding) ==
    IF records = <<>> THEN <<>>
    ELSE InsertByDistance(NearestFirst(SubSeq(records, 1, Len(records) - 1), embedding),
                          records[Len(records)], embedding)

\* What a query with no where filter would search.
QueryScopeAll(coll, u) == coll

\* where={"user_id": str(user_id)}: the records a query of user u searches.
QueryScope(coll, u) == CollGet(coll, Str(u))

\* collection.query(query_embeddings=[e], n_results=k, where={"user_id": ...})
CollQuery(coll, embedding, k, u) ==
    LET nearest == NearestFirst(QueryScope(coll, u), embedding)
    IN  SubSeq(nearest, 1, Min(k, Len(nearest)))

\* The entry of contexts built from one result.
ContextOf(e, embedding) ==
    [text |-> e.document, filename |-> e.metadata.filename,
     page |-> e.metadata.page_number,
     similarity |-> Similarity(Distance(embedding, e))]
IsRelevant(e, embedding) == Relevant(Similarity(Distance(embedding, e)))

\* retrieve_relevant_context whose except branch returns (True, []).
RetrieveFailingTrue(coll, u, query, k, f) ==
    IF f # "none" THEN [results |-> <<>>, ok |-> TRUE, contexts |-> <<>>]
    ELSE LET embedding == Embed(query)
             results == CollQuery(coll, embedding, k, u)
             kept == SelectSeq(results, LAMBDA e : IsRelevant(e, embedding))
             contexts == [i \in DOMAIN kept |-> ContextOf(kept[i], embedding)]
         IN  [results |-> results, ok |-> contexts # <<>>, contexts |-> contexts]

\* retrieve_relevant_context with fault f: the query's results and the pair
\* (has_context, contexts) returned.
RetrieveRelevantContext(coll, u, query, k, f) ==
    IF f # "none" THEN [results |-> <<>>, ok |-> FALSE, contexts |-> <<>>]
    ELSE LET embedding == Embed(query)
             results == CollQuery(coll, embedding, k, u)
             kept == SelectSeq(results, LAMBDA e : IsRelevant(e, embedding))
             contexts == [i \in DOMAIN kept |-> ContextOf(kept[i], embedding)]
         IN  [results |-> results, ok |-> contexts # <<>>, contexts |-> contexts]

\* A filter on the filename alone.
OfFileOfAnyUser(e, u, filename) == e.metadata.filename = filename
OfFile(e, u, filename) == e.metadata.user_id = u /\ e.metadata.filename = filename
\* collection.get(where={"$and": [user_id == u, filename == filename]})
CollGetFile(coll, u, filename) == SelectSeq(coll, LAMBDA e : OfFile(e, u, filename))

\* delete_user_file with fault f: the collection it leaves and its result.
DeleteUserFile(coll, u, filename, f) ==
    IF f \in {"init", "store"}
    THEN [coll |-> coll, ok |-> FALSE, message |-> "Error"]
    ELSE LET results == CollGetFile(coll, Str(u), filename)
         IN  IF results = <<>>
             THEN [coll |-> coll, ok |-> FALSE, message |-> "File not found"]
             ELSE IF f = "delete"
             THEN [coll |-> coll, ok |-> FALSE, message |-> "Error"]
             ELSE [coll |-> CollDelete(coll, IdsOf(results)), ok |-> TRUE,
                   message |-> "Successfully deleted " \o filename]

\* ------------------------------------------------------------ state
VARIABLES
    \* st.session_state of one browser session; keys: which of "chat_sessions"
    \* and "current_chat_id" it holds
    authenticated, user_id, keys, chat_sessions, current_chat_id,
    \* the script's place in a turn, the prompt and the accumulated reply
    pc, prompt, full_response,
    \* datetime.now(), deltas received in this stream
    now, chunks,
    \* the handler that ran last: [op, chat, prev] (history, for the properties)
    last,
    \* st.session_state.global_context, and the turn's locals: the retrieval's
    \* result and the messages given to the model; retrieval: the step of the
    \* turn's retrieval that raised (history, for the properties)
    global_context, has_context, contexts, messages_for_llm, retrieval,
    \* the "user_chats" collection
    user_chats,
    \* the running calls of chroma_storage.py, by caller
    calls,
    \* the "userFiles" collection, datetime.now() of vector_store.py, and the
    \* call of vector_store.py that ran last with what it returned
    user_files, uploads, vcall,
    \* the module globals of the lazy initialisers (_chroma_client and
    \* _collection of chroma_storage.py and of vector_store.py,
    \* _embedding_model), by function; the constructor runs that returned, by
    \* function; the calls entered; the running calls, by caller
    lazy, constructed, entered, icalls,
    \* the users table of users.db, the calls of register_user entered, and
    \* the running calls, by caller
    user_table, registrations, rcalls

turnVars == <<global_context, has_context, contexts, messages_for_llm, retrieval>>
appVars == <<authenticated, user_id, keys, chat_sessions, current_chat_id,
             pc, prompt, full_response, now, chunks, last, turnVars>>
\* What no handler of app.py writes.
lazyVars == <<lazy, constructed, entered, icalls>>
authVars == <<user_table, registrations, rcalls>>
libVars == <<lazyVars, authVars>>
nonAppVars == <<calls, user_files, uploads, vcall, libVars>>
vecVars == <<user_files, uploads, vcall>>
vars == <<appVars, user_chats, calls, vecVars, libVars>>

\* ------------------------------------------------------------ app.py
\* Lines 72-76: a new browser session; nothing in src/app.py sets
\* authenticated afterwards (the login form is commented out).
InitApp ==
    /\ authenticated = FALSE
    /\ user_id = NoUser
    /\ keys = {}
    /\ chat_sessions = <<>>
    /\ current_chat_id = None
    /\ pc = "idle"
    /\ prompt = ""
    /\ full_response = ""
    /\ now = 0
    /\ chunks = 0
    /\ last = [op |-> "none", chat |-> None, prev |-> None]
    /\ global_context = ""
    /\ has_context = FALSE
    /\ contexts = <<>>
    /\ messages_for_llm = <<>>
    /\ retrieval = "none"

\* No call of chroma_storage.py runs. before, before_current: what a load
\* returned when the call was entered; repeated: the call is a save that
\* follows a save of the same arguments that returned True; after_failed_load:
\* the call is the save of a one-session collection that follows a failed load
\* of the same user, as in the startup of app.py 154-164 (history, for the
\* properties).
IdleCall ==
    [op |-> "none", pc |-> "idle", user |-> NoUser, sessions |-> <<>>,
     current |-> None, chat |-> None, existing |-> {}, ret |-> "none",
     loaded |-> [sessions |-> <<>>, current |-> None],
     given |-> [sessions |-> <<>>, current |-> None],
     before |-> <<>>, before_current |-> None, repeated |-> FALSE,
     after_failed_load |-> FALSE, failed |-> {}]

\* No call of vector_store.py has run.
IdleVec ==
    [op |-> "none", user |-> NoUser, filename |-> "", query |-> "", top_k |-> 0,
     fault |-> "none", ok |-> FALSE, message |-> "", results |-> <<>>, contexts |-> <<>>]
InitVec ==
    /\ user_files = <<>>
    /\ uploads = 0
    /\ vcall = IdleVec

\* The lazy initialisers: the functions, the globals at import (None, None),
\* and a caller that runs none. A handle is the number of the constructor run
\* that made it, 0 stands for None.
InitFns == {"init_chromadb_client", "init_vector_store"}
LazyFns == InitFns \cup {"get_embedding_model"}
NoHandle == 0
NoGlobals == [client |-> NoHandle, collection |-> NoHandle]
IdleInit ==
    [fn |-> "none", pc |-> "idle", ret |-> "none", client |-> NoHandle,
     collection |-> NoHandle]
InitLazy ==
    /\ lazy = [fn \in LazyFns |-> NoGlobals]
    /\ constructed = [fn \in LazyFns |-> 0]
    /\ entered = 0
    /\ icalls = [c \in Callers |-> IdleInit]

\* auth.py at import: init_user_db has created the empty users table; no call
\* of register_user runs.
IdleRegister ==
    [pc |-> "idle", username |-> "", password |-> "", ok |-> FALSE, message |-> ""]
InitAuth ==
    /\ user_table = <<>>
    /\ registrations = 0
    /\ rcalls = [c \in Callers |-> IdleRegister]
InitLib == InitLazy /\ InitAuth

Init ==
    /\ InitApp
    /\ user_chats = <<>>
    /\ calls = [c \in Callers |-> IdleCall]
    /\ InitVec
    /\ InitLib

\* save_to_chromadb
SaveToChromadb(sessions, current) ==
    IF authenticated /\ user_id # NoUser
    THEN \E f \in Faults :
            user_chats' = SaveUserChats(user_chats, user_id, sessions, current, f).coll
    ELSE user_chats' = user_chats

\* A script run reaches the sidebar and the handlers: the session is
\* initialised, no turn is running, and line 172 finds the active session.
Ready ==
    /\ pc = "idle"
    /\ keys = {"chat_sessions", "current_chat_id"}
    /\ Has(chat_sessions, current_chat_id)

\* The chat ids of the documents a collection holds: a uuid4 drawn at startup
\* differs from all of them.
StoredChatIds(coll) == {coll[i].metadata.chat_id : i \in DOMAIN coll}

\* The active chat after a load that returned sessions (app.py 157): the flagged
\* id, or the first loaded one.
ActiveAfterLoadAsFlagged(loaded) == loaded.current
ActiveAfterLoad(loaded) ==
    IF loaded.current # None THEN loaded.current ELSE FirstKey(loaded.sessions)

\* The first script run of a session: load, or create the first chat.
Startup ==
    /\ pc = "idle"
    /\ "chat_sessions" \notin keys
    /\ keys' = {"chat_sessions", "current_chat_id"}
    /\ \E failed \in BOOLEAN, cid \in {FreshId(StoredChatIds(user_chats))} :
        LET loaded == LoadUserChats(user_chats, user_id, failed)
            first == <<[id |-> cid, data |-> NewChatData(now)]>>
            op == IF failed THEN "startup_failed" ELSE "startup"
        IN  IF loaded.sessions # <<>>
            THEN /\ chat_sessions' = Render(loaded.sessions)
                 /\ current_chat_id' = ActiveAfterLoad(loaded)
                 /\ last' = [op |-> op, chat |-> None, prev |-> None]
                 /\ UNCHANGED <<now, user_chats>>
            ELSE /\ chat_sessions' = first
                 /\ current_chat_id' = cid
                 /\ now' = now + 1
                 /\ last' = [op |-> op, chat |-> cid, prev |-> None]
                 /\ SaveToChromadb(first, cid)
    /\ UNCHANGED <<authenticated, user_id, pc, prompt, full_response, chunks>>
    /\ UNCHANGED nonAppVars
    /\ UNCHANGED turnVars

\* A script run that no handler answers (a click on the active chat, a changed
\* setting): the sidebar loop refreshes the titles.
Rerun ==
    /\ Ready
    /\ chat_sessions' = Render(chat_sessions)
    /\ last' = [op |-> "rerun", chat |-> None, prev |-> current_chat_id]
    /\ UNCHANGED <<authenticated, user_id, keys, current_chat_id, pc, prompt,
                   full_response, now, chunks, user_chats>>
    /\ UNCHANGED nonAppVars
    /\ UNCHANGED turnVars

\* "New Chat"
NewChat ==
    /\ Ready
    /\ Len(chat_sessions) < MaxChats
    /\ now < MaxClock
    /\ \E cid \in {FreshId(Keys(chat_sessions))} :
        LET after == Append(chat_sessions, [id |-> cid, data |-> NewChatData(now)])
        IN  /\ chat_sessions' = Render(after)
            /\ current_chat_id' = cid
            /\ SaveToChromadb(after, cid)
            /\ last' = [op |-> "new_chat", chat |-> cid, prev |-> current_chat_id]
    /\ now' = now + 1
    /\ UNCHANGED <<authenticated, user_id, keys, pc, prompt, full_response, chunks>>
    /\ UNCHANGED nonAppVars
    /\ UNCHANGED turnVars

\* The button of a chat other than the active one.
SwitchChat ==
    /\ Ready
    /\ \E cid \in Keys(chat_sessions) \ {current_chat_id} :
        LET after == RenderUpTo(chat_sessions, cid)
        IN  /\ chat_sessions' = Render(after)
            /\ current_chat_id' = cid
            /\ SaveToChromadb(after, cid)
            /\ last' = [op |-> "switch", chat |-> cid, prev |-> current_chat_id]
    /\ UNCHANGED <<authenticated, user_id, keys, pc, prompt, full_response, now, chunks>>
    /\ UNCHANGED nonAppVars
    /\ UNCHANGED turnVars

\* The delete handler without its switch to another chat.
AfterDeleteKeep(after, cid, current) == current

\* The active id after del chat_sessions[cid].
AfterDelete(after, cid, current) ==
    IF cid = current THEN FirstKey(after) ELSE current

\* Whether a chat's delete button is drawn.
CanDelete(sessions) == Len(sessions) > 1

\* The delete button of a chat drawn with no test of the number of sessions:
\* deleting the only session empties the dict, and line 231 then raises
\* IndexError with the deletion done.
DeleteChatUnguarded ==
    /\ pc = "idle" /\ keys = {"chat_sessions", "current_chat_id"}
    /\ \E cid \in Keys(chat_sessions) :
        LET after == Del(RenderUpTo(chat_sessions, cid), cid)
        IN  /\ chat_sessions' = Render(after)
            /\ current_chat_id' = IF after = <<>> THEN current_chat_id
                                  ELSE IF cid = current_chat_id THEN FirstKey(after)
                                  ELSE current_chat_id
            /\ last' = [op |-> "delete", chat |-> cid, prev |-> current_chat_id]
    /\ UNCHANGED <<authenticated, user_id, keys, pc, prompt, full_response, now,
                   chunks, user_chats>>
    /\ UNCHANGED nonAppVars
    /\ UNCHANGED turnVars

\* The delete button of a chat.
DeleteChat ==
    /\ Ready
    /\ CanDelete(chat_sessions)
    /\ \E cid \in Keys(chat_sessions) :
        LET after == Del(RenderUpTo(chat_sessions, cid), cid)
            current == AfterDelete(after, cid, current_chat_id)
        IN  /\ chat_sessions' = Render(after)
            /\ current_chat_id' = current
            /\ SaveToChromadb(after, current)
            /\ last' = [op |-> "delete", chat |-> cid, prev |-> current_chat_id]
    /\ UNCHANGED <<authenticated, user_id, keys, pc, prompt, full_response, now, chunks>>
    /\ UNCHANGED nonAppVars
    /\ UNCHANGED turnVars

\* "Clear Current Chat"
ClearChat ==
    /\ Ready
    /\ LET rendered == Render(chat_sessions)
           data == Get(rendered, current_chat_id)
           after == Put(rendered, current_chat_id, [data EXCEPT !.messages = <<>>])
       IN  /\ chat_sessions' = Render(after)
           /\ SaveToChromadb(after, current_chat_id)
    /\ last' = [op |-> "clear", chat |-> current_chat_id, prev |-> current_chat_id]
    /\ UNCHANGED <<authenticated, user_id, keys, current_chat_id, pc, prompt,
                   full_response, now, chunks>>
    /\ UNCHANGED nonAppVars
    /\ UNCHANGED turnVars

\* "Logout": save, then clear the session state; current_chat_id is kept.
Logout ==
    /\ Ready
    /\ SaveToChromadb(Render(chat_sessions), current_chat_id)
    /\ authenticated' = FALSE
    /\ user_id' = NoUser
    /\ chat_sessions' = <<>>
    /\ last' = [op |-> "logout", chat |-> None, prev |-> current_chat_id]
    /\ UNCHANGED <<keys, current_chat_id, pc, prompt, full_response, now, chunks>>
    /\ UNCHANGED nonAppVars
    /\ UNCHANGED turnVars

\* Messages held by all sessions together.
RECURSIVE TotalMsgs(_)
TotalMsgs(d) == IF d = <<>> THEN 0 ELSE Len(d[1].data.messages) + TotalMsgs(Tail(d))

\* current_messages.append(message)
AppendMessage(sessions, cid, message) ==
    LET data == Get(sessions, cid)
    IN  Put(sessions, cid, [data EXCEPT !.messages = Append(@, message)])

\* str.strip() of a string of letters and blanks
RECURSIVE Strip(_)
Strip(str) ==
    IF str = "" THEN ""
    ELSE IF SubSeq(str, 1, 1) = " " THEN Strip(SubSeq(str, 2, Len(str)))
    ELSE IF SubSeq(str, Len(str), Len(str)) = " " THEN Strip(SubSeq(str, 1, Len(str) - 1))
    ELSE str

\* format_context_for_llm
RECURSIVE FormatSources(_, _)
FormatSources(ctxs, i) ==
    IF i > Len(ctxs) THEN ""
    ELSE "**Source " \o ToString(i) \o "** (from " \o ctxs[i].filename \o ", page "
         \o ctxs[i].page \o "):\n" \o ctxs[i].text \o "\n\n" \o FormatSources(ctxs, i + 1)
format_context_for_llm(ctxs) ==
    IF ctxs = <<>> THEN ""
    ELSE "**Relevant information from your uploaded documents:**\n\n" \o FormatSources(ctxs, 1)

\* rag_instruction
RagInstruction(ctxs) ==
    "The user has uploaded some documents. Here is relevant information:\n\n"
    \o format_context_for_llm(ctxs)
    \o "\n\nUse this information to answer the user's question if it's relevant."

\* system_content_parts
SystemContentParts(gc, has, ctxs) ==
    (IF Strip(gc) # "" THEN <<Strip(gc)>> ELSE <<>>)
    \o (IF has /\ ctxs # <<>> THEN <<RagInstruction(ctxs)>> ELSE <<>>)
\* "\n\n".join(parts)
RECURSIVE Join(_)
Join(parts) ==
    IF parts = <<>> THEN ""
    ELSE IF Len(parts) = 1 THEN parts[1]
    ELSE parts[1] \o "\n\n" \o Join(Tail(parts))

MAX_CONTEXT_MESSAGES == 20
\* current_messages[:MAX_CONTEXT_MESSAGES]: the oldest messages.
RecentMessagesOldest(messages) ==
    SubSeq(messages, 1, Min(MAX_CONTEXT_MESSAGES, Len(messages)))
\* recent_messages
RecentMessages(messages) ==
    IF Len(messages) > MAX_CONTEXT_MESSAGES
    THEN SubSeq(messages, Len(messages) - MAX_CONTEXT_MESSAGES + 1, Len(messages))
    ELSE messages

\* messages_for_llm as given to client.chat.completions.create
MessagesForLlm(gc, has, ctxs, messages) ==
    LET parts == SystemContentParts(gc, has, ctxs)
        recent == RecentMessages(messages)
    IN  (IF parts # <<>> THEN <<[role |-> "system", content |-> Join(parts)]>> ELSE <<>>)
        \o [i \in DOMAIN recent |-> [role |-> recent[i].role, content |-> recent[i].content]]

\* The step of the turn's retrieve_relevant_context that raises.
RetrievalFaults == {"none", "init", "encode", "store"}

\* A prompt arrives: the user message is appended and the reply is started.
\* room: whether the model's bounds leave room for another exchange.
Send(room) ==
    /\ Ready
    /\ room
    /\ \E p \in Prompts :
        /\ chat_sessions' = AppendMessage(Render(chat_sessions), current_chat_id,
                                          [role |-> "user", content |-> p])
        /\ prompt' = p
    /\ pc' = "calling"
    /\ full_response' = ""
    /\ chunks' = 0
    /\ has_context' = FALSE
    /\ contexts' = <<>>
    /\ messages_for_llm' = <<>>
    /\ retrieval' = "none"
    /\ last' = [op |-> "send", chat |-> current_chat_id, prev |-> current_chat_id]
    /\ UNCHANGED <<authenticated, user_id, keys, current_chat_id, now, user_chats,
                   global_context>>
    /\ UNCHANGED nonAppVars
SendMessage == Send(TotalMsgs(chat_sessions) + 2 <= MaxMsgs)

\* Retrieval, prompt assembly, and client.chat.completions.create(...) returns
\* the stream.
CallModel ==
    /\ pc = "calling"
    /\ pc' = "streaming"
    /\ \E f \in RetrievalFaults :
        LET r == RetrieveRelevantContext(user_files, user_id, prompt, DefaultTopK, f)
        IN  /\ has_context' = r.ok
            /\ contexts' = r.contexts
            /\ messages_for_llm' =
                   MessagesForLlm(global_context, r.ok, r.contexts,
                                  Get(chat_sessions, current_chat_id).messages)
            /\ retrieval' = f
    /\ last' = [op |-> "call", chat |-> current_chat_id, prev |-> current_chat_id]
    /\ UNCHANGED <<authenticated, user_id, keys, chat_sessions, current_chat_id, prompt,
                   full_response, now, chunks, user_chats, global_context>>
    /\ UNCHANGED nonAppVars

\* One delta of the stream.
StreamChunk ==
    /\ pc = "streaming"
    /\ chunks < MaxChunks
    /\ \E d \in Deltas : full_response' = full_response \o d
    /\ chunks' = chunks + 1
    /\ last' = [op |-> "chunk", chat |-> current_chat_id, prev |-> current_chat_id]
    /\ UNCHANGED <<authenticated, user_id, keys, chat_sessions, current_chat_id, pc,
                   prompt, now, user_chats>>
    /\ UNCHANGED nonAppVars
    /\ UNCHANGED turnVars

\* An except branch that keeps what had streamed as the reply.
OnTurnErrorKeepPartial(sessions, cid, partial) ==
    IF partial = "" THEN sessions
    ELSE AppendMessage(sessions, cid, [role |-> "assistant", content |-> partial])

\* An except branch that takes the prompt back out of the session.
OnTurnErrorDropPrompt(sessions, cid, partial) ==
    LET data == Get(sessions, cid)
    IN  Put(sessions, cid,
            [data EXCEPT !.messages = SubSeq(@, 1, Len(@) - 1)])

\* What the except branch of the turn leaves of the sessions.
OnTurnError(sessions, cid, partial) == sessions

\* The model call or the stream raises: the except branch shows the error.
TurnError ==
    /\ pc \in {"calling", "streaming"}
    /\ pc' = "idle"
    /\ chat_sessions' = OnTurnError(chat_sessions, current_chat_id, full_response)
    /\ last' = [op |-> "error", chat |-> current_chat_id, prev |-> current_chat_id]
    /\ UNCHANGED <<authenticated, user_id, keys, current_chat_id, prompt, full_response,
                   now, chunks, user_chats>>
    /\ has_context' = FALSE
    /\ contexts' = <<>>
    /\ messages_for_llm' = <<>>
    /\ retrieval' = "none"
    /\ UNCHANGED global_context
    /\ UNCHANGED nonAppVars

\* The stream ends: append the reply, set the first title, save, rerun.
StreamComplete ==
    /\ pc = "streaming"
    /\ LET appended == AppendMessage(chat_sessions, current_chat_id,
                                     [role |-> "assistant", content |-> full_response])
           data == Get(appended, current_chat_id)
           after == IF Len(data.messages) = 2
                    THEN Put(appended, current_chat_id,
                             [data EXCEPT !.title = get_chat_title(data.messages)])
                    ELSE appended
       IN  /\ chat_sessions' = Render(after)
           /\ SaveToChromadb(after, current_chat_id)
    /\ pc' = "idle"
    /\ prompt' = ""
    /\ full_response' = ""
    /\ chunks' = 0
    /\ last' = [op |-> "complete", chat |-> current_chat_id, prev |-> current_chat_id]
    /\ UNCHANGED <<authenticated, user_id, keys, current_chat_id, now>>
    /\ has_context' = FALSE
    /\ contexts' = <<>>
    /\ messages_for_llm' = <<>>
    /\ retrieval' = "none"
    /\ UNCHANGED global_context
    /\ UNCHANGED nonAppVars

Next ==
    \/ Startup
    \/ Rerun
    \/ NewChat
    \/ SwitchChat
    \/ DeleteChat
    \/ ClearChat
    \/ Logout
    \/ SendMessage
    \/ CallModel
    \/ StreamChunk
    \/ TurnError
    \/ StreamComplete

Spec == Init /\ [][Next]_vars

\* ------------------------------------------------------------ the turn
\* The turn of app.py over long histories, stored chunks and a global
\* context: the state a session reaches after earlier exchanges and uploads.
\* values of the "Set a global instruction" text area
GlobalContexts == {"", " be brief "}
\* Lengths of the active session's history around MAX_CONTEXT_MESSAGES.
HistoryLens == {0, MAX_CONTEXT_MESSAGES - 2, MAX_CONTEXT_MESSAGES - 1, MAX_CONTEXT_MESSAGES}
\* n messages of earlier turns: user and assistant in turn, each its own text.
History(n) ==
    [i \in 1..n |-> [role |-> IF i % 2 = 1 THEN "user" ELSE "assistant",
                     content |-> "m" \o ToString(i)]]
\* The session holding them, as the sidebar loop leaves it.
HistorySessions(n) ==
    Render(<<[id |-> "c1", data |-> [NewChatData(0) EXCEPT !.messages = History(n)]]>>)
\* The userFiles collection: empty, or after an upload of the one page PDF
\* in this session (user_id None).
TurnFiles ==
    {<<>>, ProcessAndStorePdf(<<>>, NoUser, "a.pdf", OnePage, 0, "none").coll}

InitTurn ==
    /\ authenticated = FALSE
    /\ user_id = NoUser
    /\ keys = {"chat_sessions", "current_chat_id"}
    /\ \E n \in HistoryLens : chat_sessions = HistorySessions(n)
    /\ current_chat_id = "c1"
    /\ pc = "idle"
    /\ prompt = ""
    /\ full_response = ""
    /\ now = 1
    /\ chunks = 0
    /\ last = [op |-> "none", chat |-> None, prev |-> None]
    /\ global_context = ""
    /\ has_context = FALSE
    /\ contexts = <<>>
    /\ messages_for_llm = <<>>
    /\ retrieval = "none"
    /\ user_chats = <<>>
    /\ calls = [c \in Callers |-> IdleCall]
    /\ user_files \in TurnFiles
    /\ uploads = IF user_files = <<>> THEN 0 ELSE 1
    /\ vcall = IdleVec
    /\ InitLib

\* The text area of the global context is changed: the script run stores it.
SetGlobalContext ==
    /\ Ready
    /\ \E g \in GlobalContexts \ {global_context} : global_context' = g
    /\ chat_sessions' = Render(chat_sessions)
    /\ last' = [op |-> "context", chat |-> None, prev |-> current_chat_id]
    /\ UNCHANGED <<authenticated, user_id, keys, current_chat_id, pc, prompt,
                   full_response, now, chunks, user_chats>>
    /\ UNCHANGED <<has_context, contexts, messages_for_llm, retrieval>>
    /\ UNCHANGED nonAppVars

CurrentMessages == Get(chat_sessions, current_chat_id).messages
\* A prompt in a session whose history has one of the lengths above.
SendLong == Send(Len(CurrentMessages) \in HistoryLens)

NextTurn ==
    \/ SetGlobalContext
    \/ SendLong
    \/ CallModel
    \/ StreamChunk
    \/ TurnError
    \/ StreamComplete
SpecTurn == InitTurn /\ [][NextTurn]_vars

\* ------------------------------------------------------------ comparing collections
Initialised == "chat_sessions" \in keys
\* Two dicts with the same keys and the same value under each key.
SameSessions(a, b) ==
    /\ Keys(a) = Keys(b)
    /\ \A k \in Keys(a) : Get(a, k) = Get(b, k)
\* The sessions persisted for user u.
Persisted(coll, u) == LoadUserChats(coll, u, FALSE).sessions
LastMessage(sessions, cid) ==
    LET m == Get(sessions, cid).messages IN m[Len(m)]

\* ------------------------------------------------------------ chroma_storage.py, step by step
\* Session values and collections handed to save_user_chats.
DataA ==
    [messages |-> <<[role |-> "user", content |-> "hi"],
                    [role |-> "assistant", content |-> "ok"]>>,
     title |-> "hi", created_at |-> 1]
DataB == NewChatData(2)
SessionChoices ==
    { <<>>,
      <<[id |-> "c1", data |-> DataA]>>,
      <<[id |-> "c1", data |-> DataB], [id |-> "c2", data |-> DataA]>> }
\* The active ids a caller passes with a collection.
CurrentChoices(sessions) == IF sessions = <<>> THEN {None} ELSE Keys(sessions)

CanCall(c) == calls[c].pc \in {"idle", "done"}
SetCall(c, r) == calls' = [calls EXCEPT ![c] = r]
\* The outer handler of save_user_chats: print the error, return False.
SaveFailed(r, step) ==
    [r EXCEPT !.pc = "done", !.ret = "False", !.failed = @ \cup {step}]

\* save_user_chats(u, sessions, current) is entered.
SaveCall(c) ==
    /\ CanCall(c)
    /\ \E u \in Users, sessions \in SessionChoices :
        \E current \in CurrentChoices(sessions) :
            SetCall(c, [IdleCall EXCEPT !.op = "save", !.pc = "init", !.user = u,
                            !.sessions = sessions, !.current = current,
                            !.given = [sessions |-> sessions, current |-> current],
                            !.before = Persisted(user_chats, u),
                            !.before_current = LoadUserChats(user_chats, u, FALSE).current,
                            !.after_failed_load = /\ calls[c].op = "load"
                                                  /\ calls[c].pc = "done"
                                                  /\ calls[c].failed # {}
                                                  /\ calls[c].user = u
                                                  /\ Len(sessions) = 1,
                            !.repeated = /\ calls[c].op = "save"
                                         /\ calls[c].pc = "done"
                                         /\ calls[c].ret = "True"
                                         /\ calls[c].user = u
                                         /\ calls[c].given = [sessions |-> sessions,
                                                              current |-> current]])
    /\ UNCHANGED <<appVars, libVars, user_chats, vecVars>>

\* init_chromadb_client()
SaveInit(c) ==
    /\ calls[c].op = "save" /\ calls[c].pc = "init"
    /\ \/ SetCall(c, [calls[c] EXCEPT !.pc = "get"])
       \/ SetCall(c, SaveFailed(calls[c], "init"))
    /\ UNCHANGED <<appVars, libVars, user_chats, vecVars>>

\* existing_ids = collection.get(where=...); an error is printed and the
\* save goes on to the add.
SaveGet(c) ==
    /\ calls[c].op = "save" /\ calls[c].pc = "get"
    /\ \/ LET ids == IdsOf(CollGet(user_chats, Str(calls[c].user)))
          IN  SetCall(c, [calls[c] EXCEPT !.existing = ids,
                              !.pc = IF ids = {} THEN "add" ELSE "delete"])
       \/ SetCall(c, [calls[c] EXCEPT !.pc = "add", !.failed = @ \cup {"get"}])
    /\ UNCHANGED <<appVars, libVars, user_chats, vecVars>>

\* collection.delete(ids=existing_ids['ids']); an error is printed and the
\* save goes on to the add.
SaveDelete(c) ==
    /\ calls[c].op = "save" /\ calls[c].pc = "delete"
    /\ \/ /\ user_chats' = CollDelete(user_chats, calls[c].existing)
          /\ SetCall(c, [calls[c] EXCEPT !.pc = "add"])
       \/ /\ user_chats' = user_chats
          /\ SetCall(c, [calls[c] EXCEPT !.pc = "add", !.failed = @ \cup {"delete"}])
    /\ UNCHANGED <<appVars, libVars, vecVars>>

\* if ids: collection.add(...); return True
SaveAdd(c) ==
    /\ calls[c].op = "save" /\ calls[c].pc = "add"
    /\ LET docs == SaveDocs(calls[c].user, calls[c].sessions, calls[c].current)
       IN  \/ /\ user_chats' = IF docs = <<>> THEN user_chats
                               ELSE CollAdd(user_chats, docs)
              /\ SetCall(c, [calls[c] EXCEPT !.pc = "done", !.ret = "True"])
           \/ /\ docs # <<>>
              /\ user_chats' = user_chats
              /\ SetCall(c, SaveFailed(calls[c], "add"))
    /\ UNCHANGED <<appVars, libVars, vecVars>>

\* load_user_chats(u) is entered.
LoadCall(c) ==
    /\ CanCall(c)
    /\ \E u \in Users :
        SetCall(c, [IdleCall EXCEPT !.op = "load", !.pc = "get", !.user = u])
    /\ UNCHANGED <<appVars, libVars, user_chats, vecVars>>

\* init_chromadb_client() and collection.get(where=...), then the loop; an
\* error of either returns ({}, None).
LoadGet(c) ==
    /\ calls[c].op = "load" /\ calls[c].pc = "get"
    /\ \E failed \in BOOLEAN :
        SetCall(c, [calls[c] EXCEPT
                        !.pc = "done",
                        !.loaded = LoadUserChats(user_chats, calls[c].user, failed),
                        !.failed = IF failed THEN {"get"} ELSE {}])
    /\ UNCHANGED <<appVars, libVars, user_chats, vecVars>>

\* delete_user_chat(u, chat_id) is entered.
DeleteCall(c) ==
    /\ CanCall(c)
    /\ \E u \in Users, chat \in {"c1", "c2"} :
        SetCall(c, [IdleCall EXCEPT !.op = "delete", !.pc = "delete", !.user = u,
                        !.chat = chat])
    /\ UNCHANGED <<appVars, libVars, user_chats, vecVars>>

\* collection.delete(ids=[doc_id]); an error returns False.
DeleteOne(c) ==
    /\ calls[c].op = "delete" /\ calls[c].pc = "delete"
    /\ \/ /\ user_chats' = CollDelete(user_chats, {DocId(calls[c].user, calls[c].chat)})
          /\ SetCall(c, [calls[c] EXCEPT !.pc = "done", !.ret = "True"])
       \/ /\ user_chats' = user_chats
          /\ SetCall(c, SaveFailed(calls[c], "delete"))
    /\ UNCHANGED <<appVars, libVars, vecVars>>

StoreStep(c) ==
    \/ SaveCall(c)
    \/ SaveInit(c)
    \/ SaveGet(c)
    \/ SaveDelete(c)
    \/ SaveAdd(c)
    \/ LoadCall(c)
    \/ LoadGet(c)
    \/ DeleteCall(c)
    \/ DeleteOne(c)

\* One caller: every call runs to its end before the next is entered.
NextStore == StoreStep(1)
SpecStore == Init /\ [][NextStore]_vars

\* Two callers, each entering one save_user_chats, whose store operations
\* interleave; the store holds nothing or an earlier save of user 1.
InitialStores == {<<>>, SaveDocs(1, <<[id |-> "c1", data |-> DataB]>>, "c1")}
InitConc ==
    /\ InitApp
    /\ user_chats \in InitialStores
    /\ calls = [c \in Callers |-> IdleCall]
    /\ InitVec
    /\ InitLib
SaveCallOnce(c) ==
    /\ calls[c].pc = "idle"
    /\ SaveCall(c)
DeleteCallOnce(c) ==
    /\ calls[c].pc = "idle"
    /\ DeleteCall(c)
NextConc ==
    \E c \in Callers :
        \/ SaveCallOnce(c)
        \/ SaveInit(c)
        \/ SaveGet(c)
        \/ SaveDelete(c)
        \/ SaveAdd(c)
        \/ DeleteCallOnce(c)
        \/ DeleteOne(c)
SpecConc == InitConc /\ [][NextConc]_vars

\* ------------------------------------------------------------ startup from the store
\* The first script run against a collection that already holds documents:
\* sessions saved under str(user_id) of the session (flagged or not), and
\* sessions of another user.
StartStores ==
    { <<>>,
      SaveDocs(1, <<[id |-> "c2", data |-> DataA]>>, "c2"),
      SaveDocs(1, <<[id |-> "c2", data |-> DataA]>>, "c2")
        \o SaveDocs(NoUser, <<[id |-> "c1", data |-> DataA]>>, "c1"),
      SaveDocs(NoUser, <<[id |-> "c1", data |-> DataB], [id |-> "c2", data |-> DataA]>>, None),
      SaveDocs(NoUser, <<[id |-> "c1", data |-> DataB], [id |-> "c2", data |-> DataA]>>, "c2") }
InitStart ==
    /\ InitApp
    /\ user_chats \in StartStores
    /\ calls = [c \in Callers |-> IdleCall]
    /\ InitVec
    /\ InitLib
\* The startup and the sidebar handlers that follow it.
NextStart ==
    \/ Startup
    \/ Rerun
    \/ NewChat
    \/ SwitchChat
    \/ DeleteChat
    \/ ClearChat
    \/ Logout
SpecStart == InitStart /\ [][NextStart]_vars

\* ------------------------------------------------------------ vector_store.py calls
\* A call of process_and_store_pdf.
Ingest ==
    /\ uploads < MaxUploads
    /\ \E u \in Users, filename \in Filenames, pdf \in Pdfs, f \in VecFaults \ {"delete"} :
        LET r == ProcessAndStorePdf(user_files, u, filename, pdf, uploads, f)
        IN  /\ user_files' = r.coll
            /\ vcall' = [IdleVec EXCEPT !.op = "ingest", !.user = u, !.fault = f,
                             !.filename = filename, !.ok = r.ok, !.message = r.message]
    /\ uploads' = uploads + 1
    /\ UNCHANGED <<appVars, libVars, user_chats, calls>>

\* A call of delete_user_file.
DeleteFile ==
    /\ \E u \in Users, filename \in Filenames, f \in VecFaults \ {"load", "encode"} :
        LET r == DeleteUserFile(user_files, u, filename, f)
        IN  /\ user_files' = r.coll
            /\ vcall' = [IdleVec EXCEPT !.op = "delete_file", !.user = u, !.fault = f,
                             !.filename = filename, !.ok = r.ok, !.message = r.message]
    /\ UNCHANGED <<appVars, libVars, user_chats, calls, uploads>>

\* A call of retrieve_relevant_context.
Retrieve ==
    /\ \E u \in Users, query \in Queries, k \in TopKs, f \in RetrievalFaults :
        LET r == RetrieveRelevantContext(user_files, u, query, k, f)
        IN  vcall' = [IdleVec EXCEPT !.op = "retrieve", !.user = u, !.query = query, !.fault = f,
                          !.top_k = k, !.ok = r.ok, !.results = r.results,
                          !.contexts = r.contexts]
    /\ UNCHANGED <<appVars, libVars, user_chats, calls, user_files, uploads>>

NextVec ==
    \/ Ingest
    \/ DeleteFile
    \/ Retrieve
SpecVec == Init /\ [][NextVec]_vars

\* ------------------------------------------------------------ lazy initialisers
\* init_chromadb_client, init_vector_store and get_embedding_model, step by
\* step, for the threads of one process (one per browser session). No lock is
\* taken around the test of the global and the construction.
SetInit(c, r) == icalls' = [icalls EXCEPT ![c] = r]
Returned(r, g) ==
    [r EXCEPT !.pc = "done", !.ret = "returned", !.client = g.client,
              !.collection = g.collection]
Raised(r) == [r EXCEPT !.pc = "done", !.ret = "raised"]

\* The call is entered: with the global set it returns the globals at once.
LazyEnter(c) ==
    /\ icalls[c].pc \in {"idle", "done"}
    /\ entered < MaxInitCalls
    /\ entered' = entered + 1
    /\ \E fn \in LazyFns :
        LET r == [IdleInit EXCEPT !.fn = fn]
        IN  IF lazy[fn].client # NoHandle
            THEN SetInit(c, Returned(r, lazy[fn]))
            ELSE SetInit(c, [r EXCEPT !.pc = "construct"])
    /\ UNCHANGED <<lazy, constructed>>
    /\ UNCHANGED <<appVars, user_chats, calls, vecVars, authVars>>

\* The credentials test and the constructor (CloudClient, SentenceTransformer):
\* either raises, or the global is assigned as soon as the constructor
\* returns; get_embedding_model then returns the global.
LazyConstruct(c) ==
    /\ icalls[c].pc = "construct"
    /\ LET fn == icalls[c].fn
           made == constructed[fn] + 1
       IN  \/ /\ SetInit(c, Raised(icalls[c]))
              /\ UNCHANGED <<lazy, constructed>>
           \/ /\ constructed' = [constructed EXCEPT ![fn] = made]
              /\ lazy' = [lazy EXCEPT ![fn].client = made]
              /\ IF fn \in InitFns
                 THEN SetInit(c, [icalls[c] EXCEPT !.pc = "collection"])
                 ELSE SetInit(c, Returned(icalls[c], lazy'[fn]))
    /\ UNCHANGED <<entered, appVars, user_chats, calls, vecVars, authVars>>

\* The heartbeat (its error is swallowed) and get_or_create_collection on the
\* global client: it raises and the error is passed on with the client global
\* left as it is, or the collection global is assigned and both are returned.
LazyCollection(c) ==
    /\ icalls[c].pc = "collection"
    /\ LET fn == icalls[c].fn
       IN  \/ /\ SetInit(c, Raised(icalls[c]))
              /\ UNCHANGED lazy
           \/ /\ lazy' = [lazy EXCEPT ![fn].collection = lazy[fn].client]
              /\ SetInit(c, Returned(icalls[c], lazy'[fn]))
    /\ UNCHANGED <<constructed, entered, appVars, user_chats, calls, vecVars, authVars>>

NextLazy ==
    \E c \in Callers :
        \/ LazyEnter(c)
        \/ LazyConstruct(c)
        \/ LazyCollection(c)
SpecLazy == Init /\ [][NextLazy]_vars

\* ------------------------------------------------------------ auth.py
\* Arguments of register_user: empty, too short, and long enough.
Usernames == {"", "al", "bob", "eve"}
Passwords == {"", "12345", "123456"}
\* bcrypt.gensalt()
Salts == {"s1", "s2"}
\* hash_password: the bcrypt hash, which holds the salt.
hash_password(password, salt) == <<"bcrypt", salt, password>>
\* SELECT id FROM users WHERE username = ?
HasUsername(table, username) == \E i \in DOMAIN table : table[i].username = username
\* username TEXT UNIQUE NOT NULL: the INSERT of a taken username raises.
UniqueViolationNever(table, username) == FALSE
UniqueViolation(table, username) == HasUsername(table, username)
\* INSERT INTO users (username, password_hash), id INTEGER PRIMARY KEY
\* AUTOINCREMENT
Insert(table, username, hash) ==
    Append(table, [id |-> Len(table) + 1, username |-> username, password_hash |-> hash])

SetRegister(c, r) == rcalls' = [rcalls EXCEPT ![c] = r]
Rejected(r, message) == [r EXCEPT !.pc = "done", !.ok = FALSE, !.message = message]

\* register_user(username, password) is entered: the tests of lines 46-53.
RegisterCall(c) ==
    /\ rcalls[c].pc \in {"idle", "done"}
    /\ registrations < MaxRegistrations
    /\ registrations' = registrations + 1
    /\ \E username \in Usernames, password \in Passwords :
        LET r == [IdleRegister EXCEPT !.username = username, !.password = password]
        IN  IF username = "" \/ password = ""
            THEN SetRegister(c, Rejected(r, "Username and password are required"))
            ELSE IF Len(username) < MinUsername
            THEN SetRegister(c, Rejected(r, "Username must be at least 3 characters"))
            ELSE IF Len(password) < MinPassword
            THEN SetRegister(c, Rejected(r, "Password must be at least 6 characters"))
            ELSE SetRegister(c, [r EXCEPT !.pc = "select"])
    /\ UNCHANGED <<user_table, appVars, user_chats, calls, vecVars, lazyVars>>

\* The connection and the SELECT; an error is caught by the handler.
RegisterSelect(c) ==
    /\ rcalls[c].pc = "select"
    /\ \/ SetRegister(c, Rejected(rcalls[c], "Registration failed: error"))
       \/ IF HasUsername(user_table, rcalls[c].username)
          THEN SetRegister(c, Rejected(rcalls[c], "Username already exists"))
          ELSE SetRegister(c, [rcalls[c] EXCEPT !.pc = "insert"])
    /\ UNCHANGED <<user_table, registrations, appVars, user_chats, calls, vecVars, lazyVars>>

\* hash_password, the INSERT and the commit: the row is in the table once the
\* commit returns; an error (the UNIQUE constraint, a locked database) is
\* caught by the handler and nothing is committed.
RegisterInsert(c) ==
    /\ rcalls[c].pc = "insert"
    /\ \/ /\ SetRegister(c, Rejected(rcalls[c], "Registration failed: error"))
          /\ UNCHANGED user_table
       \/ IF UniqueViolation(user_table, rcalls[c].username)
          THEN /\ SetRegister(c, Rejected(rcalls[c],
                        "Registration failed: UNIQUE constraint failed: users.username"))
               /\ UNCHANGED user_table
          ELSE \E salt \in Salts :
               /\ user_table' = Insert(user_table, rcalls[c].username,
                                       hash_password(rcalls[c].password, salt))
               /\ SetRegister(c, [rcalls[c] EXCEPT !.pc = "done", !.ok = TRUE,
                                       !.message = "Registration successful"])
    /\ UNCHANGED <<registrations, appVars, user_chats, calls, vecVars, lazyVars>>

NextAuth ==
    \E c \in Callers :
        \/ RegisterCall(c)
        \/ RegisterSelect(c)
        \/ RegisterInsert(c)
SpecAuth == Init /\ [][NextAuth]_vars


\* ------------------------------------------------------------ properties of Spec
\* C1: once the session is initialised the in-memory collection always holds
\* at least one session, whatever new-chat, switch, delete, clear and send
\* steps ran (no step runs after a logout): a delete only happens while more
\* than one session exists.
C1_AtLeastOneSession ==
    (Initialised /\ last.op # "logout") => Len(chat_sessions) >= 1
\* A delete has left exactly one session.
C1_Witness ==
    last.op = "delete" /\ Len(chat_sessions) = 1

\* C2: right after a delete the deleted session is gone and the active id is a
\* key of the collection; it moved only if the deleted session was the active
\* one.
C2_DeleteKeepsActiveValid ==
    last.op = "delete" =>
        /\ ~Has(chat_sessions, last.chat)
        /\ Has(chat_sessions, current_chat_id)
        /\ (last.chat # last.prev => current_chat_id = last.prev)
\* The active session was deleted and another one took its place.
C2_Witness ==
    /\ last.op = "delete"
    /\ last.chat = last.prev
    /\ Has(chat_sessions, current_chat_id)

\* C7: when a turn has completed (the reply is appended), the collection
\* persisted for the user equals the in-memory collection.
C7_ExchangePersisted ==
    last.op = "complete" => SameSessions(Persisted(user_chats, user_id), chat_sessions)

\* C10: the reply is appended only by the step that ends the stream, and is the
\* whole accumulated text; a step in which the model call or the stream raises
\* changes no session, no active id and nothing persisted, and leaves the
\* prompt as the last message of the active session.
C10_ReplyOnlyAfterStream ==
    [][/\ (pc # "idle" /\ last'.op = "error") =>
            /\ chat_sessions' = chat_sessions
            /\ current_chat_id' = current_chat_id
            /\ user_chats' = user_chats
            /\ LastMessage(chat_sessions', current_chat_id') =
                    [role |-> "user", content |-> prompt]
       /\ (pc # "idle" /\ chat_sessions' # chat_sessions) =>
            /\ pc = "streaming"
            /\ last'.op = "complete"
            /\ current_chat_id' = current_chat_id
            /\ Keys(chat_sessions') = Keys(chat_sessions)
            /\ Get(chat_sessions', current_chat_id).messages =
                    Append(Get(chat_sessions, current_chat_id).messages,
                           [role |-> "assistant", content |-> full_response])
            /\ \A k \in Keys(chat_sessions) \ {current_chat_id} :
                    Get(chat_sessions', k) = Get(chat_sessions, k)
      ]_vars
\* The stream raised after some text had arrived.
C10_Witness ==
    /\ last.op = "error"
    /\ full_response # ""
    /\ LastMessage(chat_sessions, current_chat_id) = [role |-> "user", content |-> prompt]

\* The title the first user message gives: its first 50 characters, and "..."
\* when it is longer.
TitleFor(content) ==
    IF Len(content) > 50 THEN SubSeq(content, 1, 50) \o "..." ELSE content
Created ==
    last.op = "new_chat" \/ (last.op \in {"startup", "startup_failed"} /\ last.chat # None)
\* C11: a session just created by create_new_chat has the title "New Chat";
\* when the exchange that completes is the session's first (one user message
\* and its reply), the title is the first 50 characters of the user message,
\* followed by "..." exactly when the message is longer than 50.
C11_TitleAssignment ==
    /\ Created => Get(chat_sessions, last.chat).title = "New Chat"
    /\ (last.op = "complete" /\ Len(Get(chat_sessions, last.chat).messages) = 2) =>
        LET data == Get(chat_sessions, last.chat)
        IN  /\ data.messages[1].role = "user"
            /\ data.title = TitleFor(data.messages[1].content)
\* A first exchange completed whose user message has exactly 50 characters:
\* the title is the message, with no ellipsis.
C11_Witness ==
    /\ last.op = "complete"
    /\ Len(Get(chat_sessions, last.chat).messages) = 2
    /\ Get(chat_sessions, last.chat).messages[1].content = Exact50
    /\ Get(chat_sessions, last.chat).title = Exact50

\* C12: a session's title changes only once: from "New Chat", in the step that
\* completes the session's first exchange; no other step changes a title.
C12_TitleSetOnce ==
    [][\A cid \in Keys(chat_sessions) \cap Keys(chat_sessions') :
          Get(chat_sessions, cid).title # Get(chat_sessions', cid).title =>
              /\ Get(chat_sessions, cid).title = "New Chat"
              /\ last'.op = "complete"
              /\ last'.chat = cid
              /\ Len(Get(chat_sessions', cid).messages) = 2]_vars

IsPrefix(a, b) == Len(a) <= Len(b) /\ SubSeq(b, 1, Len(a)) = a
\* C18: messages are append-only: in every step, the message list a session
\* had before is a prefix of the list it has after.
C18_AppendOnly ==
    [][\A cid \in Keys(chat_sessions) \cap Keys(chat_sessions') :
          IsPrefix(Get(chat_sessions, cid).messages,
                   Get(chat_sessions', cid).messages)]_vars
\* C18 as amended: in every step, the message list a session had before is a
\* prefix of the list it has after, unless the step is "Clear Current Chat" on
\* that session, which leaves its list empty.
C18_AppendOnlyButClear ==
    [][\A cid \in Keys(chat_sessions) \cap Keys(chat_sessions') :
          \/ IsPrefix(Get(chat_sessions, cid).messages,
                      Get(chat_sessions', cid).messages)
          \/ /\ last'.op = "clear"
             /\ last'.chat = cid
             /\ cid = current_chat_id
             /\ Get(chat_sessions', cid).messages = <<>>]_vars
\* A message was appended to a session that had been cleared.
C18_Witness ==
    /\ last.op = "send"
    /\ Len(Get(chat_sessions, current_chat_id).messages) = 1
    /\ Get(chat_sessions, current_chat_id).title # "New Chat"

\* C25: whenever a script run of an initialised session reads the active
\* session (line 172), current_chat_id is a key of chat_sessions, after a
\* Logout too.
C25_ActiveIdIsKey ==
    (Initialised /\ pc = "idle") => Has(chat_sessions, current_chat_id)

\* C28: a new-chat, switch or delete step changes no session that stays in the
\* collection; a clear step and the steps of a send (append, error,
\* completion) keep the set of ids and created_at of the active session and
\* change no other session.
C28_LifecycleFrame ==
    [][/\ last'.op \in {"new_chat", "switch", "delete"} =>
            \A cid \in Keys(chat_sessions) \cap Keys(chat_sessions') :
                Get(chat_sessions', cid) = Get(chat_sessions, cid)
       /\ last'.op \in {"clear", "send", "error", "complete"} =>
            /\ Keys(chat_sessions') = Keys(chat_sessions)
            /\ \A cid \in Keys(chat_sessions) :
                    /\ Get(chat_sessions', cid).created_at = Get(chat_sessions, cid).created_at
                    /\ cid # current_chat_id =>
                            Get(chat_sessions', cid) = Get(chat_sessions, cid)]_vars

\* ------------------------------------------------------------ properties of SpecStore
SaveDone(c) == calls[c].op = "save" /\ calls[c].pc = "done"

\* C3: after save_user_chats(U, S, active) has returned True, the sessions
\* persisted for U are exactly the keys of S.
C3_SaveIsFullReplace ==
    \A c \in Callers :
        (SaveDone(c) /\ calls[c].ret = "True") =>
            Keys(Persisted(user_chats, calls[c].user)) = Keys(calls[c].sessions)

\* C4: after save_user_chats(U, S, active) has returned True with active a key
\* of S, load_user_chats(U) returns the sessions of S, each with its messages,
\* title and created_at, and returns active.
C4_RoundTrip ==
    \A c \in Callers :
        (/\ SaveDone(c)
         /\ calls[c].ret = "True"
         /\ Has(calls[c].sessions, calls[c].current)) =>
            LET loaded == LoadUserChats(user_chats, calls[c].user, FALSE)
            IN  /\ SameSessions(loaded.sessions, calls[c].sessions)
                /\ loaded.current = calls[c].current

\* C5: when save_user_chats(U, S, active) has ended, with True or False, the
\* sessions persisted for U are those persisted before the call or those of S.
C5_SaveIsAtomic ==
    \A c \in Callers :
        SaveDone(c) =>
            LET kept == Persisted(user_chats, calls[c].user)
            IN  \/ SameSessions(kept, calls[c].before)
                \/ SameSessions(kept, calls[c].sessions)

\* C6: save_user_chats ends by returning True or False, returns False when a
\* step of it failed, and leaves the sessions and the active id it was given as
\* they were.
C6_SaveReportsFailure ==
    \A c \in Callers :
        SaveDone(c) =>
            /\ calls[c].ret \in {"True", "False"}
            /\ (calls[c].failed # {} => calls[c].ret = "False")
            /\ calls[c].sessions = calls[c].given.sessions
            /\ calls[c].current = calls[c].given.current

\* C20: when save_user_chats(U, S, active) has returned True and the same call
\* is made again and returns True, load_user_chats(U) returns the sessions and
\* the active id it returned after the first call.
C20_ResaveIdempotent ==
    \A c \in Callers :
        (SaveDone(c) /\ calls[c].ret = "True" /\ calls[c].repeated) =>
            LET loaded == LoadUserChats(user_chats, calls[c].user, FALSE)
            IN  /\ SameSessions(loaded.sessions, calls[c].before)
                /\ loaded.current = calls[c].before_current

\* C26: a load that fails returns something else than the ({}, None) of a user
\* with no sessions; and the save of the first session that a startup makes
\* after a failed load keeps every session that was persisted for the user.
C26_LoadFailureSafe ==
    \A c \in Callers :
        /\ (calls[c].op = "load" /\ calls[c].pc = "done" /\ calls[c].failed # {}) =>
                calls[c].loaded # LoadUserChats(<<>>, calls[c].user, FALSE)
        /\ (SaveDone(c) /\ calls[c].after_failed_load) =>
                LET kept == Persisted(user_chats, calls[c].user)
                IN  \A k \in Keys(calls[c].before) :
                        Has(kept, k) /\ Get(kept, k) = Get(calls[c].before, k)

\* ------------------------------------------------------------ properties of SpecConc
\* C9: when two saves of one user have both ended with no step failing, the
\* sessions persisted for the user are those of one of the two saves.
C9_LastWriteWins ==
    (/\ SaveDone(1) /\ SaveDone(2)
     /\ calls[1].user = calls[2].user
     /\ calls[1].failed = {} /\ calls[2].failed = {}) =>
        LET kept == Persisted(user_chats, calls[1].user)
        IN  \/ SameSessions(kept, calls[1].sessions)
            \/ SameSessions(kept, calls[2].sessions)

\* The documents of user v in a collection, by their user_id metadata.
DocsOf(coll, v) == SelectSeq(coll, LAMBDA e : e.metadata.user_id = ToString(v))
\* C22: a step of save_user_chats or delete_user_chat of user U, alone or
\* interleaved with the calls of another user, leaves the documents of every
\* other user as they were; and when a save of V has ended with no step failing
\* while the other caller worked for another user, V's persisted sessions are
\* those of V's save.
C22_WriteIsolation ==
    /\ [][\A c \in Callers : calls'[c] # calls[c] =>
            \A v \in Users \ {calls'[c].user} :
                DocsOf(user_chats', v) = DocsOf(user_chats, v)]_vars
    /\ [](\A c, d \in Callers :
            (/\ SaveDone(c) /\ calls[c].failed = {}
             /\ calls[d].op # "none" /\ calls[d].user # calls[c].user) =>
                SameSessions(Persisted(user_chats, calls[c].user), calls[c].sessions))
\* C22: the saves of two different users have both ended, interleaved, and
\* both users have persisted sessions.
C22_Witness ==
    /\ SaveDone(1) /\ SaveDone(2)
    /\ calls[1].user # calls[2].user
    /\ calls[1].failed = {} /\ calls[2].failed = {}
    /\ calls[1].sessions # <<>> /\ calls[2].sessions # <<>>
    /\ DocsOf(user_chats, 1) # <<>> /\ DocsOf(user_chats, 2) # <<>>

\* ------------------------------------------------------------ properties of SpecVec
Records(coll) == {coll[i] : i \in DOMAIN coll}
\* C8: every snippet retrieve_relevant_context(U1, q, k) returns is built from
\* a stored chunk that U1 uploaded, never from a chunk of another user.
C8_RetrievalIsScoped ==
    vcall.op = "retrieve" =>
        \A i \in DOMAIN vcall.contexts :
            \E e \in Records(user_files) :
                /\ e \in Records(vcall.results)
                /\ vcall.contexts[i] = ContextOf(e, Embed(vcall.query))
                /\ e.by = vcall.user
                /\ \A o \in Records(vcall.results) : o.by = vcall.user
\* A retrieval returned a snippet while another user holds a chunk that is
\* relevant to the same query.
C8_Witness ==
    /\ vcall.op = "retrieve"
    /\ vcall.contexts # <<>>
    /\ \E o \in Records(user_files) :
        /\ o.by # vcall.user
        /\ IsRelevant(o, Embed(vcall.query))

\* The distance of a query result to the query of the last call, in tenths.
ResultDistance(e) == Abs(Embed(vcall.query) - e.embedding)
\* The results of the last query that are nearer than 1.5.
Passing == SelectSeq(vcall.results, LAMBDA e : ResultDistance(e) < 15)
\* C13: retrieve_relevant_context returns a snippet for a candidate of the
\* store query exactly when the candidate's similarity 1 / (1 + distance) is
\* above 0.4, that is its distance below 1.5; has_context is True exactly when
\* some candidate passes.
C13_Threshold ==
    vcall.op = "retrieve" =>
        /\ Len(vcall.contexts) = Len(Passing)
        /\ \A i \in DOMAIN vcall.contexts :
            /\ vcall.contexts[i].text = Passing[i].document
            /\ vcall.contexts[i].similarity.den = 10 + ResultDistance(Passing[i])
            /\ 10 * vcall.contexts[i].similarity.num > 4 * vcall.contexts[i].similarity.den
        /\ vcall.ok = (Passing # <<>>)
\* A retrieval whose candidates include one at distance 1.5 (similarity 0.4),
\* left out, and one nearer, returned.
C13_Witness ==
    /\ vcall.op = "retrieve"
    /\ vcall.contexts # <<>>
    /\ \E i \in DOMAIN vcall.results : ResultDistance(vcall.results[i]) = 15

\* The chunks the querying user of the last call uploaded.
OwnChunks == {e \in Records(user_files) : e.by = vcall.user}
\* C14: the snippets of retrieve_relevant_context(user, query, top_k) are in
\* the order of non-increasing similarity, at most top_k, each with the text,
\* filename, page number and similarity of a chunk of the user; when the
\* user's nearest chunk has a similarity above 0.4, it is the first snippet.
C14_RankedSnippets ==
    vcall.op = "retrieve" =>
        /\ Len(vcall.contexts) <= vcall.top_k
        /\ \A i, j \in DOMAIN vcall.contexts :
            i < j => vcall.contexts[i].similarity.num * vcall.contexts[j].similarity.den
                     >= vcall.contexts[j].similarity.num * vcall.contexts[i].similarity.den
        /\ \A i \in DOMAIN vcall.contexts :
            \E e \in OwnChunks :
                /\ vcall.contexts[i].text = e.document
                /\ vcall.contexts[i].filename = e.metadata.filename
                /\ vcall.contexts[i].page = e.metadata.page_number
                /\ vcall.contexts[i].similarity = [num |-> 10, den |-> 10 + ResultDistance(e)]
        /\ \A e \in OwnChunks :
            (/\ vcall.fault = "none"
             /\ ResultDistance(e) < 15
             /\ \A o \in OwnChunks : ResultDistance(e) <= ResultDistance(o)) =>
                /\ vcall.contexts # <<>>
                /\ vcall.contexts[1].similarity.den = 10 + ResultDistance(e)
\* A retrieval with top_k = 1 by a user with two relevant chunks, the nearer
\* one stored last: only the nearer is returned.
C14_Witness ==
    /\ vcall.op = "retrieve"
    /\ vcall.top_k = 1
    /\ Len(vcall.contexts) = 1
    /\ \E i, j \in DOMAIN user_files :
        /\ i < j
        /\ user_files[i].by = vcall.user /\ user_files[j].by = vcall.user
        /\ ResultDistance(user_files[i]) < 15
        /\ ResultDistance(user_files[j]) < ResultDistance(user_files[i])
        /\ vcall.contexts[1].text = user_files[j].document

\* The stored chunks of the ingestion that stored e: same uploader, filename
\* and upload time.
SameIngestion(e) ==
    {o \in Records(user_files) :
        /\ o.by = e.by
        /\ o.metadata.filename = e.metadata.filename
        /\ o.metadata.uploaded_at = e.metadata.uploaded_at}
\* C16: a call of process_and_store_pdf that returns failure leaves the stored
\* chunks as they were, and in no state are some but not all chunks of one
\* ingestion stored.
C16_IngestionAllOrNothing ==
    /\ [](\A e \in Records(user_files) :
            ToString(Cardinality(SameIngestion(e))) = e.metadata.total_chunks)
    /\ [][(uploads' # uploads /\ ~vcall'.ok) => user_files' = user_files]_vars

\* Whether e is a chunk user u uploaded under a filename.
UploadedAs(e, u, filename) == e.by = u /\ e.metadata.filename = filename
\* C17: a call delete_user_file(U, F) that returns success removes exactly the
\* chunks U uploaded as F and leaves every other chunk, of other files of U and
\* of other users, as it was; with no such chunk it returns (False, "File not
\* found"); a call that does not return success changes nothing.
C17_DeleteFileFrame ==
    [][vcall'.op = "delete_file" =>
        LET u == vcall'.user
            F == vcall'.filename
        IN  /\ vcall'.ok =>
                user_files' = SelectSeq(user_files, LAMBDA e : ~UploadedAs(e, u, F))
            /\ ~vcall'.ok => user_files' = user_files
            /\ (vcall'.fault = "none" /\ \A e \in Records(user_files) : ~UploadedAs(e, u, F)) =>
                /\ ~vcall'.ok
                /\ vcall'.message = "File not found"
            /\ (vcall'.fault = "none" /\ \E e \in Records(user_files) : UploadedAs(e, u, F)) =>
                vcall'.ok]_vars
\* A file was deleted while another user holds a file of the same name, which
\* is still stored.
C17_Witness ==
    /\ vcall.op = "delete_file"
    /\ vcall.ok
    /\ \E e \in Records(user_files) :
        e.by # vcall.user /\ e.metadata.filename = vcall.filename

\* The stored chunks of a (user, filename) pair, by their metadata.
ChunksOfFile(u, filename) ==
    {e \in Records(user_files) :
        e.metadata.user_id = ToString(u) /\ e.metadata.filename = filename}
\* C29: for every user and filename the stored chunks carry one total_chunks
\* value T and their chunk_index values are exactly 0..T-1: the chunks of a
\* single ingestion.
C29_ChunksOfOneIngestion ==
    \A u \in Users, filename \in Filenames :
        LET stored == ChunksOfFile(u, filename)
            n == Cardinality(stored)
        IN  /\ \A e \in stored : e.metadata.total_chunks = ToString(n)
            /\ {e.metadata.chunk_index : e \in stored} = {ToString(i) : i \in 0..(n - 1)}

\* ------------------------------------------------------------ properties of SpecTurn
\* The last n messages of a list.
LastN(messages, n) ==
    [i \in 1..Min(n, Len(messages)) |-> messages[Len(messages) - Min(n, Len(messages)) + i]]
\* The messages a turn with no retrieved context gives the model.
NoContextMessages ==
    (IF Strip(global_context) = "" THEN <<>>
     ELSE <<[role |-> "system", content |-> Strip(global_context)]>>)
    \o LastN(CurrentMessages, 20)
\* C15: when a step of the turn's retrieval raised, retrieve_relevant_context
\* has returned (False, []), the model has been called with what a turn
\* without context gives it, and the exchange can complete.
C15_RetrievalFailsSoft ==
    (pc = "streaming" /\ retrieval # "none") =>
        /\ has_context = FALSE
        /\ contexts = <<>>
        /\ messages_for_llm = NoContextMessages
        /\ ENABLED StreamComplete
\* The retrieval of a turn raised while the store holds a chunk of the user
\* that is relevant to the prompt, and the model was called.
C15_Witness ==
    /\ pc = "streaming"
    /\ retrieval # "none"
    /\ \E e \in Records(user_files) :
        e.metadata.user_id = Str(user_id) /\ IsRelevant(e, Embed(prompt))

IsConversation(m) == m.role # "system"
\* The conversation messages among those given to the model.
ConversationSent == SelectSeq(messages_for_llm, IsConversation)
\* C19: the conversation messages given to the model are the last min(20, n)
\* of the n messages of the active session, in their order, the last one being
\* the new user message; the step that builds them leaves the sessions as they
\* were.
C19_HistoryBound ==
    /\ [](pc = "streaming" =>
            /\ ConversationSent = LastN(CurrentMessages, 20)
            /\ ConversationSent[Len(ConversationSent)] = [role |-> "user", content |-> prompt])
    /\ [][(pc = "calling" /\ pc' = "streaming") => chat_sessions' = chat_sessions]_vars
\* The model was called in a session of 21 messages: 20 were sent, all 21 are
\* still in the session.
C19_Witness ==
    /\ pc = "streaming"
    /\ Len(CurrentMessages) = 21
    /\ Len(ConversationSent) = 20
    /\ ConversationSent[1] = CurrentMessages[2]

\* ------------------------------------------------------------ properties of SpecLazy
\* C23: for each lazy initialiser the constructor runs at most once in the
\* process, and all calls that returned were given the same client (model)
\* handle, concurrent first callers included.
C23_SetUpOnce ==
    \A fn \in LazyFns :
        /\ constructed[fn] <= 1
        /\ \A c, d \in Callers :
                (/\ icalls[c].fn = fn /\ icalls[c].ret = "returned"
                 /\ icalls[d].fn = fn /\ icalls[d].ret = "returned") =>
                    icalls[c].client = icalls[d].client

\* No call of fn is between the test of the global and its return.
Quiescent(fn) ==
    \A c \in Callers : icalls[c].fn = fn => icalls[c].pc \in {"idle", "done"}
\* C27: every call of init_chromadb_client or init_vector_store that returns
\* normally returns a collection handle; and while no call is initialising, a
\* client global that is set comes with a collection global that is set (a
\* failed initialisation is not kept as (client, None)).
C27_ClientImpliesCollection ==
    /\ \A c \in Callers :
            (icalls[c].fn \in InitFns /\ icalls[c].ret = "returned") =>
                icalls[c].collection # NoHandle
    /\ \A fn \in InitFns :
            (Quiescent(fn) /\ lazy[fn].client # NoHandle) =>
                lazy[fn].collection # NoHandle

\* ------------------------------------------------------------ properties of SpecAuth
\* C24: the users table never holds two rows of one username; a call of
\* register_user that returns success was given a username of at least 3
\* characters and a password of at least 6, no row had the username, and the
\* step adds one row for it; every other step, a rejection included, leaves
\* the table as it was.
C24_RegisterRules ==
    /\ [](\A i, j \in DOMAIN user_table :
            user_table[i].username = user_table[j].username => i = j)
    /\ [][\A c \in Callers : rcalls'[c] # rcalls[c] =>
            IF rcalls'[c].pc = "done" /\ rcalls'[c].ok
            THEN /\ Len(rcalls'[c].username) >= 3
                 /\ Len(rcalls'[c].password) >= 6
                 /\ \A i \in DOMAIN user_table :
                        user_table[i].username # rcalls'[c].username
                 /\ Len(user_table') = Len(user_table) + 1
                 /\ SubSeq(user_table', 1, Len(user_table)) = user_table
                 /\ user_table'[Len(user_table')].username = rcalls'[c].username
            ELSE user_table' = user_table]_vars
\* C24: two calls with one username have both passed the SELECT; one has
\* registered the user and the other has been rejected by the table.
C24_Witness ==
    /\ rcalls[1].pc = "done" /\ rcalls[2].pc = "done"
    /\ rcalls[1].username = rcalls[2].username
    /\ rcalls[1].ok # rcalls[2].ok
    /\ \E c \in Callers :
            rcalls[c].message = "Registration failed: UNIQUE constraint failed: users.username"
    /\ Len(user_table) = 1

\* ------------------------------------------------------------ properties of SpecStart
\* The chat ids the store flags as current for user u.
FlaggedFor(coll, u) ==
    {coll[i].metadata.chat_id :
        i \in {j \in DOMAIN coll : /\ coll[j].metadata.user_id = Str(u)
                                   /\ coll[j].metadata.is_current = "True"}}
\* C21: the startup leaves a usable collection: the active id is a key of a
\* non-empty collection; with no persisted session the load returns ({}, None)
\* and the app creates exactly one session and makes it active; with loaded
\* sessions the flagged one is active, or the first loaded one when none is
\* flagged.
C21_StartupUsable ==
    last.op \in {"startup", "startup_failed"} =>
        LET stored == Persisted(user_chats, user_id)
            flagged == FlaggedFor(user_chats, user_id)
        IN  /\ chat_sessions # <<>>
            /\ Has(chat_sessions, current_chat_id)
            /\ (last.op = "startup" /\ stored = <<>>) =>
                    /\ LoadUserChats(user_chats, user_id, FALSE)
                            = [sessions |-> <<>>, current |-> None]
                    /\ Len(chat_sessions) = 1
                    /\ chat_sessions[1].id = current_chat_id
                    /\ last.chat = current_chat_id
            /\ (last.op = "startup" /\ stored # <<>>) =>
                    /\ Keys(chat_sessions) = Keys(stored)
                    /\ flagged # {} => current_chat_id \in flagged
                    /\ flagged = {} => current_chat_id = stored[1].id
\* C21: a startup has loaded two sessions, none flagged, and the first is active.
C21_Witness ==
    /\ last.op = "startup"
    /\ Len(Persisted(user_chats, user_id)) = 2
    /\ FlaggedFor(user_chats, user_id) = {}
    /\ current_chat_id = "c1"

====
